---- MODULE Spec2Model ----
(***************************************************************************)
(* Model of ifc_observer (src/ifc_observer.py): the document observer of   *)
(* NativeIFC.  The observer keeps two optional attributes, self.docname    *)
(* and self.objname, and defers work with QTimer.singleShot(100, ...).     *)
(* Equal-delay single-shot timers of one event loop fire in the order in   *)
(* which they were started, so the outstanding timers are a FIFO queue.    *)
(***************************************************************************)
EXTENDS Integers, Sequences, FiniteSets, TLC

\* ---------------------------------------------------------------- bounds
MaxTimers == 4      \* outstanding single-shot timers
MaxCreated == 2     \* slotCreatedObject notifications received
MaxStepId == 2      \* step ids used by tables and objects
MaxTable == 2       \* pairs in a migration table

\* ------------------------------------------------------------ the universe
Docs == {"D1", "D2"}
Names == {"A", "B"}
NameOrder == <<"A", "B">>            \* doc.Objects order
Schemas == {"IFC2X3", "IFC4"}
NoStepId == 0                        \* the object has no StepId property
StepIds == 1..MaxStepId

Absent == "absent"                   \* hasattr(...) is False
NoDoc == "nodoc"                     \* getattr(obj, "Document", None) is None
NA == "-"

TypeIds == {"App::FeaturePython", "Part::Feature", "Part::FeaturePython"}

\* obj.isDerivedFrom(t) on the host's type tree
isDerivedFrom(typeid, t) ==
    \/ typeid = t
    \/ t = "Part::Feature" /\ typeid = "Part::FeaturePython"

VARIABLES
    docname,      \* self.docname, Absent when the attribute does not exist
    objname,      \* self.objname, Absent when the attribute does not exist
    timers,       \* outstanding QTimer.singleShot callbacks, oldest first
    docs,         \* FreeCAD documents
    objs,         \* document objects, by <<document, name>>
    AskBeforeSaving, \* the stored preference
    GuiUp,        \* FreeCAD.GuiUp
    created,      \* history: number of slotCreatedObject notifications
    savePending,  \* history: document of the on_save_start not yet followed by a save firing
    aggCount,     \* history: calls of ifc_tools.aggregate per object
    ghostCount,   \* history: calls of ifc_generator.create_ghost per document
    mig,          \* history: the last migrated document; the table and the step
                  \* ids before, if the last notification migrated
    candidates,   \* history: the list objs built by the last save firing
    last          \* history: the last handler run, its outcome and the calls it made

vars == <<docname, objname, timers, docs, objs, AskBeforeSaving, GuiUp,
          created, savePending, aggCount, ghostCount, mig, candidates, last>>

NoObject ==
    [exists |-> FALSE, TypeId |-> "Part::Feature", IfcType |-> FALSE,
     StepId |-> NoStepId, IfcFilePath |-> Absent, Modified |-> Absent,
     hasProxy |-> FALSE, nodelete |-> FALSE, cached |-> FALSE,
     ifcfile |-> Absent, ShapeMode |-> Absent, project |-> FALSE,
     touched |-> FALSE]

Objects(d) == {o \in Names : objs[<<d, o>>].exists}

\* FreeCAD.listDocuments()
listDocuments == {d \in Docs : docs[d].exists}

Op(op, d, o, out, calls) ==
    [op |-> op, doc |-> d, obj |-> o, out |-> out, calls |-> calls]

NoMig == [doc |-> NA, table |-> <<>>, pre |-> [o \in Names |-> NoStepId]]

\* QTimer.singleShot(100, callback); doc/obj are the receiver of a bound
\* obj.touch or doc.recompute; for self.convert they only record which
\* slotCreatedObject notification started the timer (seq: its number).
Timer(cb, d, o, seq) == [cb |-> cb, doc |-> d, obj |-> o, seq |-> seq]

Room(n) == Len(timers) + n <= MaxTimers

\* ------------------------------------------------------- collaborators
\* ifc_tools.get_project(obj): the owning IFC project of obj, or none
get_project(d, o) == objs[<<d, o>>].project

\* ifc_tools.get_ifcfile(doc): the backing file handle of doc, or none.
\* A handle is represented by the schema name it exposes.
get_ifcfile(doc) ==
    IF doc.hasProxy /\ doc.ifcfile \in Schemas THEN doc.ifcfile ELSE "None"

\* ifc_tools.aggregate(obj, doc) leaves obj IFC-backed: it gets the first
\* step id no object of the document carries.
FreshStepId(d) ==
    CHOOSE n \in 1..(Cardinality(Names) + 1) :
        /\ \A o \in Names : objs[<<d, o>>].StepId # n
        /\ \A m \in 1..(n - 1) : \E o \in Names : objs[<<d, o>>].StepId = m

\* doc.recompute(): every touched object of the document is recomputed
recompute(os, d) ==
    [k \in DOMAIN os |-> IF k[1] = d THEN [os[k] EXCEPT !.touched = FALSE] ELSE os[k]]

\* ------------------------------------------------ slotStartSaveDocument
slotStartSaveDocument(d) ==
    /\ docs[d].exists
    /\ Room(1)
    /\ docname' = d
    /\ timers' = Append(timers, Timer("save", NA, NA, 0))
    /\ savePending' = d
    /\ last' = Op("slotStartSaveDocument", d, NA, "scheduled", <<>>)
    /\ UNCHANGED <<objname, docs, objs, AskBeforeSaving, GuiUp, created,
                   aggCount, ghostCount, mig, candidates>>

\* ---------------------------------------------------- slotDeletedObject
\* Variant: the nodelete flag of the proxy is not looked at
DeleteOutcome_ignoresNodelete(d, o) ==
    IF ~get_project(d, o) THEN "no_project"
    ELSE IF ~objs[<<d, o>>].hasProxy THEN "no_proxy"
    ELSE "removed"

\* Lines 56-63: the three early returns, else the element is removed
DeleteOutcome(d, o) ==
    IF ~get_project(d, o) THEN "no_project"
    ELSE IF ~objs[<<d, o>>].hasProxy THEN "no_proxy"
    ELSE IF objs[<<d, o>>].nodelete THEN "nodelete"
    ELSE "removed"

\* The host sends the notification and then drops the object.
slotDeletedObject(d, o) ==
    /\ docs[d].exists
    /\ objs[<<d, o>>].exists
    /\ last' = Op("slotDeletedObject", d, o, DeleteOutcome(d, o),
                  IF DeleteOutcome(d, o) = "removed"
                  THEN <<<<"remove_ifc_element", d, o>>>> ELSE <<>>)
    /\ objs' = [objs EXCEPT ![<<d, o>>] = NoObject]
    /\ aggCount' = [aggCount EXCEPT ![<<d, o>>] = 0]
    /\ UNCHANGED <<docname, objname, timers, docs, AskBeforeSaving, GuiUp,
                   created, savePending, ghostCount, mig, candidates>>

\* ---------------------------------------------------- slotCreatedObject
\* Variant: any owning document will do
SchedulesConvert_anyDocument(d) == d # NoDoc

\* Lines 92-93: the object has a document and the document has IfcFilePath
SchedulesConvert(d) ==
    /\ d # NoDoc
    /\ docs[d].IfcFilePath # Absent

\* kind: the properties of the new object.  A notification for an object
\* that already exists (undo/redo, restore) changes no property.
slotCreatedObject(d, o, kind) ==
    /\ created < MaxCreated
    /\ d # NoDoc => docs[d].exists
    /\ created' = created + 1
    /\ objs' = IF d # NoDoc /\ ~objs[<<d, o>>].exists
               THEN [objs EXCEPT ![<<d, o>>] = kind] ELSE objs
    /\ IF SchedulesConvert(d)
       THEN /\ Room(1)
            /\ objname' = o
            /\ docname' = d
            /\ timers' = Append(timers, Timer("convert", d, o, created + 1))
            /\ last' = Op("slotCreatedObject", d, o, "scheduled", <<>>)
       ELSE /\ UNCHANGED <<objname, docname, timers>>
            /\ last' = Op("slotCreatedObject", d, o, "ignored", <<>>)
    /\ UNCHANGED <<docs, AskBeforeSaving, GuiUp, savePending, aggCount,
                   ghostCount, mig, candidates>>

\* -------------------------------------------------- slotActivateDocument
\* Line 103: hasattr(doc, "Proxy") and hasattr(doc.Proxy, "ifcfile")
HasBackingFile(d) == docs[d].hasProxy /\ docs[d].ifcfile # Absent

\* Variant: the ShapeMode is not looked at
IsCoin_any(d, o) == objs[<<d, o>>].exists

\* Line 107: the objects of doc.Objects whose ShapeMode is "Coin"
IsCoin(d, o) == objs[<<d, o>>].exists /\ objs[<<d, o>>].ShapeMode = "Coin"

CoinObjects(d) == SelectSeq(NameOrder, LAMBDA o : IsCoin(d, o))

\* Lines 108-111: the timers started for a document with objects
ActivationTimers(d) ==
    [i \in 1..Len(CoinObjects(d)) |-> Timer("touch", d, CoinObjects(d)[i], 0)]
    \o <<Timer("recompute", d, NA, 0), Timer("fit_all", NA, NA, 0)>>

\* Variant: the recorded ghost is not looked at
NeedsGhost_always(d) == TRUE

\* Line 113: no ghost recorded on the proxy yet
NeedsGhost(d) == ~docs[d].ghost

slotActivateDocument(d) ==
    /\ docs[d].exists
    /\ IF HasBackingFile(d)
       THEN IF Objects(d) # {}
            THEN /\ Room(Len(ActivationTimers(d)))
                 /\ objs' = [k \in DOMAIN objs |->
                               IF k[1] = d /\ IsCoin(d, k[2])
                               THEN [objs[k] EXCEPT !.cached = TRUE]
                               ELSE objs[k]]
                 /\ timers' = timers \o ActivationTimers(d)
                 /\ last' = Op("slotActivateDocument", d, NA, "objects", <<>>)
                 /\ UNCHANGED <<docs, ghostCount>>
            ELSE IF NeedsGhost(d)
                 THEN \* ifc_generator.create_ghost(doc) records the ghost
                      /\ docs' = [docs EXCEPT ![d].ghost = TRUE]
                      /\ ghostCount' = [ghostCount EXCEPT ![d] = @ + 1]
                      /\ last' = Op("slotActivateDocument", d, NA, "ghost",
                                    <<<<"create_ghost", d, NA>>>>)
                      /\ UNCHANGED <<objs, timers>>
                 ELSE /\ last' = Op("slotActivateDocument", d, NA, "has_ghost", <<>>)
                      /\ UNCHANGED <<docs, objs, timers, ghostCount>>
       ELSE /\ last' = Op("slotActivateDocument", d, NA, "ignored", <<>>)
            /\ UNCHANGED <<docs, objs, timers, ghostCount>>
    /\ UNCHANGED <<docname, objname, AskBeforeSaving, GuiUp, created,
                   savePending, aggCount, mig, candidates>>

\* ---------------------------------------------------- slotChangedDocument
Props == {"Schema", "Label"}

\* A migration table: old ids are the keys of a dict, so they are distinct;
\* items() yields the pairs in insertion order, which is any order.
Pairs == StepIds \X StepIds

Tables ==
    UNION {{t \in [1..n -> Pairs] :
               \A i, j \in 1..n : i # j => t[i][1] # t[j][1]} : n \in 0..MaxTable}

\* Variant: the IfcFilePath property of the document is not required
Migrates_anyDocument(doc, prop) ==
    /\ prop = "Schema"
    /\ get_ifcfile(doc) # "None"
    /\ doc.Schema # get_ifcfile(doc)

\* Lines 68-74: the property is Schema, the document has IfcFilePath, there
\* is a live file and its schema differs from the declared one
Migrates(doc, prop) ==
    /\ prop = "Schema"
    /\ doc.IfcFilePath # Absent
    /\ get_ifcfile(doc) # "None"
    /\ doc.Schema # get_ifcfile(doc)

\* Lines 80-86 for one pair: the objects whose StepId equals old_id are
\* looked up in the ids as they are now; a single match is renumbered
MigrateChild(ids, pair) ==
    LET child == {o \in DOMAIN ids : ids[o] = pair[1]}
    IN  IF Cardinality(child) = 1
        THEN [o \in DOMAIN ids |-> IF o \in child THEN pair[2] ELSE ids[o]]
        ELSE ids

\* Lines 79-86: the loop over migration_table.items()
RECURSIVE MigrateChildren(_, _)
MigrateChildren(ids, table) ==
    IF table = <<>> THEN ids
    ELSE MigrateChildren(MigrateChild(ids, Head(table)), Tail(table))

\* getattr(o, "StepId", None) for o in doc.Objects
StepIdsOf(d) == [o \in Objects(d) |-> objs[<<d, o>>].StepId]

\* The host has set the property (Schema: to schema) and notifies.
\* ifc_tools.migrate_schema(ifcfile, schema) returns a file of the target
\* schema and some table.
slotChangedDocument(d, prop, schema) ==
    /\ docs[d].exists
    /\ LET doc == IF prop = "Schema" THEN [docs[d] EXCEPT !.Schema = schema]
                  ELSE docs[d]
       IN  IF Migrates(doc, prop)
           THEN \E table \in Tables :
                LET ids == MigrateChildren(StepIdsOf(d), table)
                IN  /\ docs' = [docs EXCEPT ![d] = [doc EXCEPT !.ifcfile = doc.Schema]]
                    /\ objs' = [k \in DOMAIN objs |->
                                  IF k[1] = d /\ objs[k].exists
                                  THEN [objs[k] EXCEPT !.StepId = ids[k[2]]]
                                  ELSE objs[k]]
                    /\ mig' = [doc |-> d, table |-> table,
                               pre |-> [o \in Names |-> objs[<<d, o>>].StepId]]
                    /\ last' = Op("slotChangedDocument", d, prop, "migrated",
                                  <<<<"migrate_schema", d, doc.Schema>>>>)
           ELSE /\ docs' = [docs EXCEPT ![d] = doc]
                /\ mig' = [NoMig EXCEPT !.doc = mig.doc]
                /\ last' = Op("slotChangedDocument", d, prop, "ignored", <<>>)
                /\ UNCHANGED objs
    /\ UNCHANGED <<docname, objname, timers, AskBeforeSaving, GuiUp, created,
                   savePending, aggCount, ghostCount, candidates>>

\* ------------------------------------------------------ missing context
\* Lines 129 and 171: self.docname not in FreeCAD.listDocuments()
DocumentGone(name) == name \notin listDocuments

\* Variant: the result of doc.getObject is not tested
ObjectGone_never(d, o) == FALSE

\* Lines 176-178: doc.getObject(self.objname) returns nothing
ObjectGone(d, o) == ~objs[<<d, o>>].exists

\* ------------------------------------------------------------------ save
Truthy(path) == path # Absent /\ path # "" /\ path # "None"

\* Line 138: doc.findObjects(Type="Part::FeaturePython"), in document order
FeaturePythons(d) ==
    SelectSeq(NameOrder, LAMBDA o :
        /\ objs[<<d, o>>].exists
        /\ isDerivedFrom(objs[<<d, o>>].TypeId, "Part::FeaturePython"))

\* Lines 139-140
IsModifiedIfc(d, o) ==
    /\ objs[<<d, o>>].IfcFilePath # Absent
    /\ objs[<<d, o>>].Modified # Absent
    /\ objs[<<d, o>>].Modified = "True"

\* Variant: the objects are scanned whenever the document is not a candidate
Candidates_flat(d) ==
    IF docs[d].IfcFilePath # Absent /\ docs[d].Modified # Absent
       /\ docs[d].Modified = "True"
    THEN <<<<d, NA>>>>
    ELSE LET fp == FeaturePythons(d)
             mod == SelectSeq(fp, LAMBDA o : IsModifiedIfc(d, o))
         IN  [i \in 1..Len(mod) |-> <<d, mod[i]>>]

\* Lines 133-141: the candidates, <<d, NA>> standing for the document
Candidates(d) ==
    IF docs[d].IfcFilePath # Absent /\ docs[d].Modified # Absent
    THEN IF docs[d].Modified = "True" THEN <<<<d, NA>>>> ELSE <<>>
    ELSE LET fp == FeaturePythons(d)
             mod == SelectSeq(fp, LAMBDA o : IsModifiedIfc(d, o))
         IN  [i \in 1..Len(mod) |-> <<d, mod[i]>>]

\* Variant: the path alone decides, the loaded ifcfile is not looked at
HasBackingPath_pathOnly(c) ==
    IF c[2] = NA
    THEN Truthy(docs[c[1]].IfcFilePath)
    ELSE Truthy(objs[c].IfcFilePath)

\* Line 161: obj.IfcFilePath and getattr(obj.Proxy, "ifcfile", None)
HasBackingPath(c) ==
    IF c[2] = NA
    THEN Truthy(docs[c[1]].IfcFilePath) /\ Truthy(docs[c[1]].ifcfile)
    ELSE Truthy(objs[c].IfcFilePath) /\ Truthy(objs[c].ifcfile)

\* Lines 160-164: one ViewObject.Proxy.save() or save_as() per candidate
SaveCalls(cands) ==
    [i \in 1..Len(cands) |->
        <<IF HasBackingPath(cands[i]) THEN "save" ELSE "save_as",
          cands[i][1], cands[i][2]>>]

\* The state of a checkbox, or the boolean written to the parameters
Checkbox(checked) == IF checked THEN "True" ELSE "False"

\* Variant: the prompt does not depend on the GUI being up
ShowsDialog_ignoresGui == AskBeforeSaving

\* Variant: the prompt does not depend on the stored preference
ShowsDialog_ignoresPreference == GuiUp

\* Line 148
ShowsDialog == AskBeforeSaving /\ GuiUp

save ==
    /\ savePending' = Absent
    /\ IF docname = Absent
       THEN /\ last' = Op("save", NA, NA, "no_docname", <<>>)
            /\ candidates' = <<>>
            /\ UNCHANGED <<docname, AskBeforeSaving>>
       ELSE IF DocumentGone(docname)
       THEN /\ last' = Op("save", NA, NA, "doc_gone", <<>>)
            /\ candidates' = <<>>
            /\ UNCHANGED <<docname, AskBeforeSaving>>
       ELSE /\ docname' = Absent
            /\ candidates' = Candidates(docname)
            /\ LET d == docname
                   cands == Candidates(d)
               IN  IF cands = <<>>
                   THEN /\ last' = Op("save", d, NA, "no_candidates", <<>>)
                        /\ UNCHANGED AskBeforeSaving
                   ELSE IF ShowsDialog
                   THEN \* dlg.exec_() and dlg.checkAskBeforeSaving.isChecked()
                        \E result \in BOOLEAN, checked \in BOOLEAN :
                          IF ~result
                          THEN /\ last' = Op("save", d, NA, "rejected",
                                             <<<<"dialog", "rejected", NA>>>>)
                               /\ UNCHANGED AskBeforeSaving
                          ELSE /\ AskBeforeSaving' = checked
                               /\ last' = Op("save", d, NA, "saved",
                                             <<<<"dialog", "accepted", Checkbox(checked)>>,
                                               <<"SetBool", "AskBeforeSaving",
                                                 Checkbox(checked)>>>>
                                             \o SaveCalls(cands))
                   ELSE /\ last' = Op("save", d, NA, "saved", SaveCalls(cands))
                        /\ UNCHANGED AskBeforeSaving
    /\ UNCHANGED <<objname, docs, objs, GuiUp, created, aggCount,
                   ghostCount, mig>>

\* --------------------------------------------------------------- convert
\* Variant: the StepId property is not looked at
AlreadyConverted_never(d, o) == FALSE

\* Line 179: "StepId" in obj.PropertiesList
AlreadyConverted(d, o) == objs[<<d, o>>].StepId # NoStepId

\* Lines 183-184
Convertible(d, o) ==
    /\ isDerivedFrom(objs[<<d, o>>].TypeId, "Part::Feature")
    /\ objs[<<d, o>>].IfcType

convert ==
    IF objname = Absent \/ docname = Absent
    THEN /\ last' = Op("convert", NA, NA, "no_pending", <<>>)
         /\ UNCHANGED <<docname, objname, objs, aggCount>>
    ELSE IF DocumentGone(docname)
    THEN /\ last' = Op("convert", docname, objname, "doc_gone", <<>>)
         /\ UNCHANGED <<docname, objname, objs, aggCount>>
    ELSE IF ObjectGone(docname, objname)
    THEN /\ last' = Op("convert", docname, objname, "obj_gone", <<>>)
         /\ UNCHANGED <<docname, objname, objs, aggCount>>
    ELSE IF AlreadyConverted(docname, objname)
    THEN /\ last' = Op("convert", docname, objname, "has_stepid", <<>>)
         /\ UNCHANGED <<docname, objname, objs, aggCount>>
    ELSE /\ docname' = Absent
         /\ objname' = Absent
         /\ LET d == docname
                o == objname
            IN  IF Convertible(d, o)
                THEN /\ objs' = recompute(
                                  [objs EXCEPT ![<<d, o>>].StepId = FreshStepId(d)], d)
                     /\ aggCount' = [aggCount EXCEPT ![<<d, o>>] = @ + 1]
                     /\ last' = Op("convert", d, o, "converted",
                                   <<<<"aggregate", d, o>>,
                                     <<"add_geom_properties", d, o>>,
                                     <<"recompute", d, NA>>>>)
                ELSE /\ last' = Op("convert", d, o, "not_convertible", <<>>)
                     /\ UNCHANGED <<objs, aggCount>>

\* ------------------------------------------- obj.touch, doc.recompute, fit_all
\* A timer bound to an object or document that is gone has nothing to act on.
touch(d, o) ==
    /\ objs' = IF docs[d].exists /\ objs[<<d, o>>].exists
               THEN [objs EXCEPT ![<<d, o>>].touched = TRUE] ELSE objs
    /\ last' = Op("touch", d, o, "done", <<>>)

docRecompute(d) ==
    /\ objs' = IF docs[d].exists THEN recompute(objs, d) ELSE objs
    /\ last' = Op("recompute", d, NA, "done", <<>>)

fit_all ==
    last' = Op("fit_all", NA, NA, IF GuiUp THEN "fit" ELSE "skipped",
               IF GuiUp THEN <<<<"SendMsgToActiveView", NA, NA>>>> ELSE <<>>)

\* ------------------------------------------------------- the event loop
\* The oldest outstanding timer fires and runs its callback.
FireSave ==
    /\ timers # <<>> /\ Head(timers).cb = "save"
    /\ timers' = Tail(timers)
    /\ save

FireConvert ==
    /\ timers # <<>> /\ Head(timers).cb = "convert"
    /\ timers' = Tail(timers)
    /\ convert
    /\ UNCHANGED <<docs, AskBeforeSaving, GuiUp, created, savePending,
                   ghostCount, mig, candidates>>

FireTouch ==
    /\ timers # <<>> /\ Head(timers).cb = "touch"
    /\ timers' = Tail(timers)
    /\ touch(Head(timers).doc, Head(timers).obj)
    /\ UNCHANGED <<docname, objname, docs, AskBeforeSaving, GuiUp, created,
                   savePending, aggCount, ghostCount, mig, candidates>>

FireRecompute ==
    /\ timers # <<>> /\ Head(timers).cb = "recompute"
    /\ timers' = Tail(timers)
    /\ docRecompute(Head(timers).doc)
    /\ UNCHANGED <<docname, objname, docs, AskBeforeSaving, GuiUp, created,
                   savePending, aggCount, ghostCount, mig, candidates>>

FireFitAll ==
    /\ timers # <<>> /\ Head(timers).cb = "fit_all"
    /\ timers' = Tail(timers)
    /\ fit_all
    /\ UNCHANGED <<docname, objname, docs, objs, AskBeforeSaving, GuiUp,
                   created, savePending, aggCount, ghostCount, mig, candidates>>

\* The host closes a document: it and its objects are gone.
CloseDocument(d) ==
    /\ docs[d].exists
    /\ docs' = [docs EXCEPT ![d].exists = FALSE]
    /\ objs' = [k \in DOMAIN objs |-> IF k[1] = d THEN NoObject ELSE objs[k]]
    /\ aggCount' = [k \in DOMAIN aggCount |-> IF k[1] = d THEN 0 ELSE aggCount[k]]
    /\ last' = Op("closeDocument", d, NA, "closed", <<>>)
    /\ UNCHANGED <<docname, objname, timers, AskBeforeSaving, GuiUp, created,
                   savePending, ghostCount, mig, candidates>>

\* ------------------------------------------------------------ the worlds
\* A document turned into an IFC project, and a plain FreeCAD document
IfcDocument ==
    [exists |-> TRUE, IfcFilePath |-> "path", Modified |-> "False",
     hasProxy |-> TRUE, ifcfile |-> "IFC4", ghost |-> FALSE, Schema |-> "IFC4"]

PlainDocument ==
    [exists |-> TRUE, IfcFilePath |-> Absent, Modified |-> Absent,
     hasProxy |-> FALSE, ifcfile |-> Absent, ghost |-> FALSE, Schema |-> "IFC4"]

\* Objects the host creates: a wall to convert, a shape without IfcType and
\* an IFC element that already carries a StepId
Wall == [NoObject EXCEPT !.exists = TRUE, !.IfcType = TRUE]
Box == [NoObject EXCEPT !.exists = TRUE]
Element == [NoObject EXCEPT !.exists = TRUE, !.TypeId = "Part::FeaturePython",
                            !.StepId = 1, !.hasProxy = TRUE, !.project = TRUE,
                            !.ShapeMode = "Shape"]

\* An IFC project object, which has a file of its own
Project == [Element EXCEPT !.IfcFilePath = "path", !.Modified = "True",
                           !.ifcfile = "IFC4"]

ObjectKinds == {Wall, Box, Element}

InitHistory ==
    /\ created = 0
    /\ savePending = Absent
    /\ aggCount = [k \in Docs \X Names |-> 0]
    /\ ghostCount = [d \in Docs |-> 0]
    /\ mig = NoMig
    /\ candidates = <<>>
    /\ last = Op("init", NA, NA, NA, <<>>)

\* After construction (line 33) the observer has neither attribute and no
\* timer is outstanding.
InitObserver ==
    /\ docname = Absent
    /\ objname = Absent
    /\ timers = <<>>

\* ----------------------------------------- notifications and deferred calls
\* An IFC document and a plain document, both empty; the host creates and
\* deletes objects, saves and closes documents in any order.  Activation,
\* which reads and writes neither docname nor objname, is in SpecActivate.
Init ==
    /\ InitObserver
    /\ InitHistory
    /\ docs = [D1 |-> IfcDocument, D2 |-> PlainDocument]
    /\ objs = [k \in Docs \X Names |-> NoObject]
    /\ AskBeforeSaving = TRUE
    /\ GuiUp = TRUE

Next ==
    \/ \E d \in Docs : slotStartSaveDocument(d)
    \/ \E d \in Docs \cup {NoDoc}, o \in Names, kind \in ObjectKinds :
          slotCreatedObject(d, o, kind)
    \/ \E d \in Docs, o \in Names : slotDeletedObject(d, o)
    \/ \E d \in Docs : CloseDocument(d)
    \/ FireSave
    \/ FireConvert

Spec == Init /\ [][Next]_vars

\* ------------------------------------------------------- schema migration
\* Document D1 in every shape the trigger distinguishes, holding two
\* objects with or without step ids (they may share one); the host sets
\* document properties in any order.
MigrationDocuments ==
    {[IfcDocument EXCEPT !.IfcFilePath = p, !.ifcfile = f, !.Schema = s] :
        p \in {Absent, "path"}, f \in {"None"} \cup Schemas, s \in Schemas}

Numbered(id) == [Element EXCEPT !.StepId = id]

InitMigrate ==
    /\ InitObserver
    /\ InitHistory
    /\ \E doc \in MigrationDocuments :
          docs = [D1 |-> doc, D2 |-> [PlainDocument EXCEPT !.exists = FALSE]]
    /\ \E a, b \in {Box} \cup {Numbered(id) : id \in StepIds} :
          objs = [k \in Docs \X Names |->
                    IF k = <<"D1", "A">> THEN a
                    ELSE IF k = <<"D1", "B">> THEN b ELSE NoObject]
    /\ AskBeforeSaving = TRUE
    /\ GuiUp = TRUE

NextMigrate ==
    \E d \in Docs, prop \in Props :
        IF prop = "Schema"
        THEN \E schema \in Schemas : slotChangedDocument(d, prop, schema)
        ELSE slotChangedDocument(d, prop, docs[d].Schema)

SpecMigrate == InitMigrate /\ [][NextMigrate]_vars

\* ------------------------------------------------------------------ saving
\* Document D1 with or without IfcFilePath and Modified, holding objects with
\* or without their own file; the host saves it repeatedly.
SaveDocuments ==
    {[PlainDocument EXCEPT !.IfcFilePath = p, !.Modified = m,
                           !.hasProxy = (p # Absent),
                           !.ifcfile = IF p = Absent THEN Absent ELSE f] :
        p \in {Absent, "", "path"}, m \in {Absent, "True", "False"},
        f \in {"None", "IFC4"}}

SaveObjects ==
    {NoObject, Box}
    \cup {[Project EXCEPT !.TypeId = t, !.IfcFilePath = p, !.Modified = m,
                          !.ifcfile = f] :
            t \in {"Part::Feature", "Part::FeaturePython"},
            p \in {"", "path"}, m \in {"True", "False"}, f \in {"None", "IFC4"}}

InitSave ==
    /\ InitObserver
    /\ InitHistory
    /\ \E doc \in SaveDocuments :
          docs = [D1 |-> doc, D2 |-> [PlainDocument EXCEPT !.exists = FALSE]]
    /\ \E a, b \in SaveObjects :
          objs = [k \in Docs \X Names |->
                    IF k = <<"D1", "A">> THEN a
                    ELSE IF k = <<"D1", "B">> THEN b ELSE NoObject]
    /\ AskBeforeSaving \in BOOLEAN
    /\ GuiUp \in BOOLEAN

NextSave ==
    \/ \E d \in Docs : slotStartSaveDocument(d)
    \/ FireSave

SpecSave == InitSave /\ [][NextSave]_vars

\* ------------------------------------------------- activation and deletion
\* Document D1 with or without a proxy and a backing file, holding objects
\* with or without a proxy, a project and a display mode; the host activates
\* the document and deletes objects in any order.
ActivateDocuments ==
    {IfcDocument, PlainDocument,
     [IfcDocument EXCEPT !.ifcfile = Absent],
     [IfcDocument EXCEPT !.ifcfile = "None"]}

ActivateObjects ==
    {NoObject}
    \cup {[Box EXCEPT !.project = p] : p \in BOOLEAN}
    \cup {[Element EXCEPT !.project = p, !.nodelete = n, !.ShapeMode = m] :
            p \in BOOLEAN, n \in BOOLEAN, m \in {Absent, "Coin", "Shape"}}

InitActivate ==
    /\ InitObserver
    /\ InitHistory
    /\ \E doc \in ActivateDocuments :
          docs = [D1 |-> doc, D2 |-> [PlainDocument EXCEPT !.exists = FALSE]]
    /\ \E a, b \in ActivateObjects :
          objs = [k \in Docs \X Names |->
                    IF k = <<"D1", "A">> THEN a
                    ELSE IF k = <<"D1", "B">> THEN b ELSE NoObject]
    /\ AskBeforeSaving = TRUE
    /\ GuiUp \in BOOLEAN

NextActivate ==
    \/ \E d \in Docs : slotActivateDocument(d)
    \/ \E d \in Docs, o \in Names : slotDeletedObject(d, o)
    \/ FireTouch
    \/ FireRecompute
    \/ FireFitAll

SpecActivate == InitActivate /\ [][NextActivate]_vars

\* =============================================================== properties
\* The step is a firing of the oldest timer, whose callback is cb
Fires(cb) ==
    /\ timers # <<>>
    /\ Head(timers).cb = cb
    /\ timers' = Tail(timers)

\* The calls of fn on (d, o) made by the last handler run
CallsOf(op, fn, d, o) ==
    Cardinality({i \in 1..Len(op.calls) : op.calls[i] = <<fn, d, o>>})

CallsNamed(op, fn) ==
    Cardinality({i \in 1..Len(op.calls) : op.calls[i][1] = fn})

\* C1: when the convert timer started by on_object_created(O) fires, no
\* other on_object_created having been received since, the document being
\* IFC-backed and still there, and O being still there, a Part::Feature with
\* IfcType and no StepId, that firing calls the aggregator exactly once on O
\* -- whatever save notifications and save firings came in between.
C1_Scenario(h) ==
    /\ h.seq = created
    /\ docs[h.doc].exists
    /\ docs[h.doc].IfcFilePath # Absent
    /\ objs[<<h.doc, h.obj>>].exists
    /\ isDerivedFrom(objs[<<h.doc, h.obj>>].TypeId, "Part::Feature")
    /\ objs[<<h.doc, h.obj>>].IfcType
    /\ objs[<<h.doc, h.obj>>].StepId = NoStepId

C1_CreateThenConvert ==
    [][(Fires("convert") /\ C1_Scenario(Head(timers)))
         => /\ last'.op = "convert"
            /\ CallsOf(last', "aggregate", Head(timers).doc, Head(timers).obj) = 1
            /\ CallsNamed(last', "aggregate") = 1]_vars

\* C2: when a save timer fires while an on_save_start(D) is pending (no save
\* firing since) and D still exists, the firing processes D: no
\* on_object_created and no convert firing changes or clears the document
\* of a pending save.
C2_SaveProcessesPending ==
    [][(Fires("save") /\ savePending # Absent /\ docs[savePending].exists)
         => /\ last'.op = "save"
            /\ last'.doc = savePending]_vars

\* C3: after a migration, every object whose old step id is the old_id of a
\* pair matched by exactly one object carries that pair's new_id, and every
\* other object carries the step id it had -- for every table, chained or not.
C3_Matches(old) == {o \in Names : mig.pre[o] = old}

C3_Expected(o) ==
    IF \E i \in 1..Len(mig.table) :
          mig.table[i][1] = mig.pre[o] /\ Cardinality(C3_Matches(mig.pre[o])) = 1
    THEN LET i == CHOOSE i \in 1..Len(mig.table) : mig.table[i][1] = mig.pre[o]
         IN  mig.table[i][2]
    ELSE mig.pre[o]

C3_MigrationRemapsEveryPair ==
    (last.op = "slotChangedDocument" /\ last.out = "migrated")
        => \A o \in Objects(mig.doc) : objs[<<mig.doc, o>>].StepId = C3_Expected(o)

\* C4 as claimed: the candidates of a processed document are the document
\* alone if it has IfcFilePath and is Modified, and in every other case the
\* Part::FeaturePython objects that have IfcFilePath and are Modified.
C4_Features(d) ==
    {<<d, o>> : o \in {n \in Names :
        /\ objs[<<d, n>>].exists
        /\ objs[<<d, n>>].TypeId = "Part::FeaturePython"
        /\ objs[<<d, n>>].IfcFilePath # Absent
        /\ objs[<<d, n>>].Modified = "True"}}

C4_Set == {candidates[i] : i \in 1..Len(candidates)}

C4_Processed == last.op = "save" /\ last.doc # NA

C4_CandidatesAsClaimed ==
    C4_Processed =>
        IF docs[last.doc].IfcFilePath # Absent /\ docs[last.doc].Modified = "True"
        THEN candidates = <<<<last.doc, NA>>>>
        ELSE C4_Set = C4_Features(last.doc)

\* C4 amended: the candidates are the document alone if it has IfcFilePath
\* and is Modified, nothing if it has IfcFilePath and a Modified flag that is
\* false, and the modified IFC Part::FeaturePython objects, each once, only
\* if the document lacks IfcFilePath or the Modified attribute.
C4_Candidates ==
    C4_Processed =>
        LET doc == docs[last.doc]
        IN  IF doc.IfcFilePath # Absent /\ doc.Modified # Absent
            THEN candidates = IF doc.Modified = "True"
                              THEN <<<<last.doc, NA>>>> ELSE <<>>
            ELSE /\ C4_Set = C4_Features(last.doc)
                 /\ Len(candidates) = Cardinality(C4_Set)

\* An IFC document that is not modified and holds a modified IFC object was
\* processed, and a plain document's modified object was collected
C4_Witness ==
    /\ C4_Processed
    /\ docs[last.doc].IfcFilePath # Absent
    /\ docs[last.doc].Modified = "False"
    /\ C4_Features(last.doc) # {}
    /\ candidates = <<>>

\* C5: with no timer outstanding the observer holds neither a pending
\* docname nor a pending objname (every firing clears what it consumed, on
\* every exit).
C5_NoPendingWhenIdle ==
    timers = <<>> => (docname = Absent /\ objname = Absent)

\* C6: a document property notification invokes the migrator exactly when
\* the property is Schema, the document has IfcFilePath and its live file's
\* schema differs from the declared Schema; otherwise file handle and step
\* ids stay as they are; after a migration the live file has the declared
\* schema, so the same notification again migrates nothing.
C6_Triggered(d) ==
    /\ last'.obj = "Schema"
    /\ docs[d].IfcFilePath # Absent
    /\ docs[d].ifcfile \in Schemas
    /\ docs[d].ifcfile # docs'[d].Schema

C6_MigrationTrigger ==
    [][last'.op = "slotChangedDocument" =>
        LET d == last'.doc
            invoked == CallsNamed(last', "migrate_schema") = 1
        IN  /\ invoked <=> C6_Triggered(d)
            /\ ~invoked => /\ last'.calls = <<>>
                           /\ objs' = objs
                           /\ docs'[d].ifcfile = docs[d].ifcfile
            /\ (/\ last.op = "slotChangedDocument" /\ last.out = "migrated"
                /\ last.doc = d /\ last'.obj = "Schema"
                /\ docs'[d].Schema = docs[d].Schema) => ~invoked]_vars

\* A Schema notification after a completed migration was ignored
C6_Witness ==
    /\ mig.doc = "D1"
    /\ last = Op("slotChangedDocument", "D1", "Schema", "ignored", <<>>)
    /\ docs["D1"].IfcFilePath # Absent
    /\ docs["D1"].ifcfile = docs["D1"].Schema

\* C7: on_object_created for an object of a document without IfcFilePath, or
\* without an owning document, starts no timer and leaves docname and
\* objname as they are.
C7_NoConvertWithoutMarker ==
    [][(/\ last'.op = "slotCreatedObject"
        /\ created' = created + 1
        /\ (last'.doc = NoDoc \/ docs[last'.doc].IfcFilePath = Absent))
         => /\ timers' = timers
            /\ docname' = docname
            /\ objname' = objname]_vars

\* An object was created in the plain document while a convert was pending
C7_Witness ==
    /\ last = Op("slotCreatedObject", "D2", "A", "ignored", <<>>)
    /\ objs[<<"D2", "A">>].exists
    /\ docs["D2"].IfcFilePath = Absent
    /\ docname = "D1"
    /\ timers # <<>>

\* C8: on_object_deleted calls the element removal exactly when the object
\* has a project, a Proxy and no nodelete flag; otherwise it calls nothing
\* and changes nothing of the observer.
C8_RemovalGuard ==
    [][(last'.op = "slotDeletedObject" /\ objs[<<last'.doc, last'.obj>>].exists)
         => LET k == <<last'.doc, last'.obj>>
                wanted == objs[k].project /\ objs[k].hasProxy /\ ~objs[k].nodelete
            IN  /\ CallsOf(last', "remove_ifc_element", k[1], k[2]) =
                       (IF wanted THEN 1 ELSE 0)
                /\ Len(last'.calls) = (IF wanted THEN 1 ELSE 0)
                /\ UNCHANGED <<docname, objname, timers, docs>>
                /\ \A j \in DOMAIN objs : j # k => objs'[j] = objs[j]]_vars

\* An object with a project and a proxy flagged nodelete was deleted
C8_Witness ==
    last = Op("slotDeletedObject", "D1", "A", "nodelete", <<>>)

\* C9: a convert firing whose pending identifiers designate an existing
\* object that carries a StepId calls no collaborator, triggers no recompute
\* and leaves objects and documents unchanged.
C9_Designated ==
    /\ docname # Absent
    /\ objname # Absent
    /\ docs[docname].exists
    /\ objs[<<docname, objname>>].exists
    /\ objs[<<docname, objname>>].StepId # NoStepId

C9_ConvertedIsNoOp ==
    [][(Fires("convert") /\ C9_Designated)
         => /\ last'.op = "convert"
            /\ last'.calls = <<>>
            /\ UNCHANGED <<objs, docs, aggCount>>]_vars

\* A convert fired for a wall that an earlier firing had already aggregated
C9_Witness ==
    /\ last.op = "convert"
    /\ last.out = "has_stepid"
    /\ aggCount[<<last.doc, last.obj>>] = 1
    /\ objs[<<last.doc, last.obj>>].IfcType

\* C10: activating a document that has a proxy with an ifcfile, no object
\* and no ghost calls the ghost creation once; once the ghost is recorded no
\* activation calls it again; a document without a proxy or without an
\* ifcfile on it never gets a ghost.
C10_GhostOnce ==
    [][\A d \in Docs :
        /\ ghostCount'[d] <= 1
        /\ ~HasBackingFile(d) => (ghostCount'[d] = 0 /\ ~docs'[d].ghost)
        /\ docs[d].ghost => (ghostCount'[d] = ghostCount[d] /\ docs'[d].ghost)
        /\ (/\ last'.op = "slotActivateDocument" /\ last'.doc = d
            /\ docs[d].exists /\ HasBackingFile(d)
            /\ Objects(d) = {} /\ ~docs[d].ghost)
             => /\ last'.calls = <<<<"create_ghost", d, NA>>>>
                /\ ghostCount'[d] = 1]_vars

\* The document was activated again after its ghost had been created
C10_Witness ==
    /\ last = Op("slotActivateDocument", "D1", NA, "has_ghost", <<>>)
    /\ ghostCount["D1"] = 1
    /\ docs["D1"].ghost

\* C11: a save firing with no docname set or with a docname that names no
\* open document, and a convert firing with an identifier missing, with a
\* docname that names no open document or an objname that names no object of
\* it, return at once: no prompt, no save, no preference write, no collaborator
\* call, no recompute, and nothing of the documents and objects changes.
C11_SaveMissing == docname = Absent \/ ~(docname \in Docs /\ docs[docname].exists)

C11_ConvertMissing ==
    \/ docname = Absent
    \/ objname = Absent
    \/ ~docs[docname].exists
    \/ ~objs[<<docname, objname>>].exists

C11_SilentReturn ==
    /\ last'.calls = <<>>
    /\ last'.out \in {"no_docname", "no_pending", "doc_gone", "obj_gone"}
    /\ UNCHANGED <<docs, objs, AskBeforeSaving, aggCount, ghostCount>>

C11_MissingContext ==
    [][/\ (Fires("save") /\ C11_SaveMissing)
            => (last'.op = "save" /\ candidates' = <<>> /\ C11_SilentReturn)
       /\ (Fires("convert") /\ C11_ConvertMissing)
            => (last'.op = "convert" /\ C11_SilentReturn)]_vars

\* A convert fired for an object that had been deleted from its open document
C11_Witness ==
    /\ last.op = "convert"
    /\ last.out = "obj_gone"
    /\ last.calls = <<>>
    /\ docs[last.doc].exists
    /\ ~objs[<<last.doc, last.obj>>].exists

\* C12 as stated: when the save step is reached every candidate receives
\* exactly one of save and save-as, in candidate order: save if its backing
\* file path is not empty, save-as otherwise.
C12_Reached == last.op = "save" /\ last.out = "saved"

C12_Steps == SelectSeq(last.calls, LAMBDA c : c[1] \in {"save", "save_as"})

C12_Path(c) == IF c[2] = NA THEN docs[c[1]].IfcFilePath ELSE objs[c].IfcFilePath

C12_Ifcfile(c) == IF c[2] = NA THEN docs[c[1]].ifcfile ELSE objs[c].ifcfile

C12_OneEach ==
    /\ Len(C12_Steps) = Len(candidates)
    /\ \A i \in 1..Len(candidates) :
          <<C12_Steps[i][2], C12_Steps[i][3]>> = candidates[i]

C12_SaveByPath ==
    C12_Reached =>
        /\ C12_OneEach
        /\ \A i \in 1..Len(candidates) :
              C12_Steps[i][1] = IF C12_Path(candidates[i]) \notin {Absent, ""}
                                THEN "save" ELSE "save_as"

\* C12 amended: every candidate receives exactly one of the two, in candidate
\* order: save if its backing file path is not empty and its proxy holds a
\* loaded ifcfile, save-as otherwise.
C12_SaveByPathAndFile ==
    C12_Reached =>
        /\ C12_OneEach
        /\ \A i \in 1..Len(candidates) :
              C12_Steps[i][1] =
                  IF /\ C12_Path(candidates[i]) \notin {Absent, ""}
                     /\ C12_Ifcfile(candidates[i]) \notin {Absent, "None"}
                  THEN "save" ELSE "save_as"

\* Two candidates with a path were processed: the first with its ifcfile
\* loaded was saved, the second without one went through save-as
C12_Witness ==
    /\ C12_Reached
    /\ Len(candidates) = 2
    /\ C12_Path(candidates[1]) = "path" /\ C12_Ifcfile(candidates[1]) = "IFC4"
    /\ C12_Path(candidates[2]) = "path" /\ C12_Ifcfile(candidates[2]) = "None"
    /\ C12_Steps[1][1] = "save"
    /\ C12_Steps[2][1] = "save_as"

\* C13: a save firing shows the dialog if and only if there is a candidate,
\* the stored AskBeforeSaving is true and the GUI is up. A rejected dialog
\* saves nothing and leaves the preference as it was; an accepted one sets the
\* preference to the state of its checkbox and every candidate is then saved
\* or saved-as. Without a dialog (GUI down, or preference false) every
\* candidate is saved and the preference is not written.
C13_Dialogs(op) ==
    {i \in 1..Len(op.calls) : op.calls[i][1] = "dialog"}

C13_SavedCandidates(op) ==
    SelectSeq(op.calls, LAMBDA c : c[1] \in {"save", "save_as"})

C13_AllSaved(op, cands) ==
    /\ Len(C13_SavedCandidates(op)) = Len(cands)
    /\ \A i \in 1..Len(cands) :
          <<C13_SavedCandidates(op)[i][2], C13_SavedCandidates(op)[i][3]>> = cands[i]

C13_ConfirmationPrompt ==
    [][Fires("save") =>
         LET shown == C13_Dialogs(last') # {}
             accepted == \E i \in C13_Dialogs(last') :
                             last'.calls[i][2] = "accepted"
         IN  /\ Cardinality(C13_Dialogs(last')) <= 1
             /\ shown <=> (candidates' # <<>> /\ AskBeforeSaving /\ GuiUp)
             /\ (shown /\ ~accepted) =>
                   /\ C13_SavedCandidates(last') = <<>>
                   /\ CallsNamed(last', "SetBool") = 0
                   /\ AskBeforeSaving' = AskBeforeSaving
             /\ (shown /\ accepted) =>
                   /\ \E i \in C13_Dialogs(last') :
                         AskBeforeSaving' = (last'.calls[i][3] = "True")
                   /\ CallsNamed(last', "SetBool") = 1
                   /\ C13_AllSaved(last', candidates')
             /\ ~shown =>
                   /\ C13_AllSaved(last', candidates')
                   /\ CallsNamed(last', "SetBool") = 0
                   /\ AskBeforeSaving' = AskBeforeSaving]_vars

\* The user rejected the dialog shown for a candidate: nothing was saved
C13_Witness ==
    /\ last.op = "save"
    /\ last.out = "rejected"
    /\ candidates # <<>>
    /\ C13_Dialogs(last) # {}
    /\ C13_SavedCandidates(last) = <<>>
    /\ AskBeforeSaving /\ GuiUp

\* C14: activating a document that has a backing ifcfile and at least one
\* object marks the proxy of exactly the objects in "Coin" mode as cached and
\* appends to the timers one touch per such object, then one recompute of the
\* document, then one view fit; the other objects are left as they were and no
\* ghost is created. The timers fire oldest first, so every touch runs before
\* the recompute, which runs before the view fit.
C14_Activated(d) ==
    /\ last'.op = "slotActivateDocument"
    /\ last'.doc = d
    /\ Len(timers') >= Len(timers)
    /\ docs[d].exists /\ docs[d].hasProxy /\ docs[d].ifcfile # Absent
    /\ \E o \in Names : objs[<<d, o>>].exists

C14_Coin(d) ==
    {o \in Names : objs[<<d, o>>].exists /\ objs[<<d, o>>].ShapeMode = "Coin"}

C14_Scheduled(d) ==
    LET n == Cardinality(C14_Coin(d))
        new == SubSeq(timers', Len(timers) + 1, Len(timers'))
    IN  /\ Len(timers') = Len(timers) + n + 2
        /\ SubSeq(timers', 1, Len(timers)) = timers
        /\ \A i \in 1..n : new[i].cb = "touch" /\ new[i].doc = d
        /\ \A o \in C14_Coin(d) :
              Cardinality({i \in 1..n : new[i].obj = o}) = 1
        /\ new[n + 1].cb = "recompute" /\ new[n + 1].doc = d
        /\ new[n + 2].cb = "fit_all"

C14_Marked(d) ==
    \A k \in DOMAIN objs :
        objs'[k] = IF k[1] = d /\ k[2] \in C14_Coin(d)
                   THEN [objs[k] EXCEPT !.cached = TRUE]
                   ELSE objs[k]

C14_OldestFirst ==
    Len(timers') < Len(timers) =>
        /\ timers' = Tail(timers)
        /\ last'.op = Head(timers).cb
        /\ Head(timers).cb \in {"touch", "recompute"} => last'.doc = Head(timers).doc

C14_ActivationWithObjects ==
    [][/\ \A d \in Docs :
             C14_Activated(d) =>
                /\ C14_Scheduled(d)
                /\ C14_Marked(d)
                /\ last'.calls = <<>>
                /\ UNCHANGED <<docs, ghostCount>>
       /\ C14_OldestFirst]_vars

\* A document holding a Coin object and an object in another mode was
\* activated: one touch, the recompute and the view fit are outstanding
C14_Witness ==
    /\ last.op = "slotActivateDocument"
    /\ last.out = "objects"
    /\ objs[<<last.doc, "A">>].ShapeMode = "Coin"
    /\ objs[<<last.doc, "A">>].cached
    /\ objs[<<last.doc, "B">>].exists
    /\ objs[<<last.doc, "B">>].ShapeMode = "Shape"
    /\ ~objs[<<last.doc, "B">>].cached
    /\ Len(timers) = 3
    /\ timers[1].cb = "touch" /\ timers[2].cb = "recompute" /\ timers[3].cb = "fit_all"

\* C15: the aggregator is only ever invoked on an object of an IFC-backed
\* document for which on_object_created was received: never on an object of a
\* document without IfcFilePath, never on an object of another document than
\* the one of the creation. (Here every object of an IFC-backed document got
\* there through on_object_created, and the documents keep their properties,
\* so the pairs notified in an IFC-backed document are the existing objects
\* of the documents that have IfcFilePath.)
C15_Aggregated(op) ==
    {<<op.calls[i][2], op.calls[i][3]>> :
        i \in {j \in 1..Len(op.calls) : op.calls[j][1] = "aggregate"}}

C15_AggregatesOnlyNotified ==
    [][Fires("convert") =>
         \A k \in C15_Aggregated(last') :
            /\ docs[k[1]].exists
            /\ docs[k[1]].IfcFilePath # Absent
            /\ objs[k].exists]_vars

\* C16: a migration keeps the step ids apart: if the StepIds of the
\* document's objects were pairwise distinct before the notification and the
\* table is injective, they are pairwise distinct after it. Stated for the
\* tables that renumber every step id in use, as a migration of the whole
\* file does, and for every order of their pairs.
C16_Numbered == {o \in Objects(mig.doc) : mig.pre[o] # NoStepId}

C16_Injective ==
    \A i, j \in 1..Len(mig.table) : i # j => mig.table[i][2] # mig.table[j][2]

C16_Total ==
    \A o \in C16_Numbered : \E i \in 1..Len(mig.table) : mig.table[i][1] = mig.pre[o]

C16_MigrationKeepsIdsDistinct ==
    (/\ last.op = "slotChangedDocument" /\ last.out = "migrated"
     /\ \A a, b \in C16_Numbered : a # b => mig.pre[a] # mig.pre[b]
     /\ C16_Injective
     /\ C16_Total)
        => \A a, b \in C16_Numbered :
              a # b => objs[<<mig.doc, a>>].StepId # objs[<<mig.doc, b>>].StepId

\* C17: over every sequence of on_object_created notifications and convert
\* firings, several timers outstanding and repeated notifications for the same
\* object included, the aggregator is invoked at most once per object (the
\* aggregation leaves the object with a StepId), and a convert timer that
\* fires when the pending identifiers have been consumed does nothing.
C17_Consumed == docname = Absent \/ objname = Absent

C17_NoDoubleConversion ==
    [][/\ \A k \in DOMAIN aggCount : aggCount'[k] <= 1
       /\ Fires("convert") =>
             /\ CallsNamed(last', "aggregate") <= 1
             /\ \A k \in C15_Aggregated(last') :
                   objs[k].StepId = NoStepId /\ objs'[k].StepId # NoStepId
       /\ (Fires("convert") /\ C17_Consumed) =>
             /\ last'.calls = <<>>
             /\ UNCHANGED <<docname, objname, docs, objs, aggCount>>]_vars

\* Two notifications for the same object started two convert timers: the
\* first converted it, the second found the identifiers consumed
C17_Witness ==
    /\ last.op = "convert"
    /\ last.out = "no_pending"
    /\ created = 2
    /\ timers = <<>>
    /\ \E k \in DOMAIN aggCount :
          /\ aggCount[k] = 1
          /\ aggCount = [j \in DOMAIN aggCount |-> IF j = k THEN 1 ELSE 0]
          /\ Cardinality({j \in DOMAIN objs : objs[j].exists}) = 1

\* C18: the stored AskBeforeSaving changes only in a save firing whose dialog
\* was accepted, and then only from true to false; once it is false it stays
\* false, and no save firing shows the dialog or writes the preference.
C18_Accepted(op) ==
    /\ op.op = "save"
    /\ \E i \in 1..Len(op.calls) :
          op.calls[i][1] = "dialog" /\ op.calls[i][2] = "accepted"

C18_PreferenceOnlyFalls ==
    [][/\ AskBeforeSaving' # AskBeforeSaving =>
             /\ Fires("save")
             /\ C18_Accepted(last')
             /\ AskBeforeSaving /\ ~AskBeforeSaving'
       /\ ~AskBeforeSaving =>
             /\ ~AskBeforeSaving'
             /\ CallsNamed(last', "dialog") = 0
             /\ CallsNamed(last', "SetBool") = 0]_vars

\* The user accepted the dialog with the box unchecked: the preference went
\* from true to false while the candidates were saved
C18_Witness ==
    /\ C18_Accepted(last)
    /\ \E i \in 1..Len(last.calls) :
          last.calls[i] = <<"SetBool", "AskBeforeSaving", "False">>
    /\ ~AskBeforeSaving
    /\ GuiUp
    /\ candidates # <<>>

====
